---- MODULE Spec2Model ----
(***************************************************************************)
(* Model of the import_csv module (src/import_csv.py): a profile           *)
(* (ImportCSV) with its column mappings (ImportCSVColumn) and the import   *)
(* of one CSV file (ImportCSVFile) by the strategy the profile names:      *)
(* import_file_default, import_file_party or import_file_sale.             *)
(*                                                                         *)
(* Text is a sequence of one-character strings, so that parsing is         *)
(* computed.                                                               *)
(*                                                                         *)
(* Two things are taken as the strategies need them to get past their      *)
(* first row. read_csv_file stands for the rows of the buffer: the source  *)
(* closes the buffer (line 546) before the reader it returns has read a    *)
(* row, and a reader over a closed buffer raises ValueError at the first   *)
(* row it is asked for. dict.iteritems (lines 640, 803, 990) iterates the  *)
(* dict, as in the interpreter the module was written for.                 *)
(*                                                                         *)
(* Spec is the import of one file, called again on the same run; SpecBatch *)
(* is import_file on two runs of one profile; SpecColumn is the methods of *)
(* ImportCSVColumn called on their own: validate, get_integer and          *)
(* get_numeric.                                                            *)
(***************************************************************************)
EXTENDS Integers, Sequences, FiniteSets, TLC

\* Bounds of the model.
MaxRows == 3
MaxImports == 2
MaxText == 4
MaxPrecision == 2

\* Limits of get_integer.
IntMax == 2147483647
IntMin == (0 - IntMax) - 1

(***************************************************************************)
(* Values held by a draft: Python None, a text or an integer. Unset marks  *)
(* a key a dict does not hold.                                             *)
(***************************************************************************)
None == [kind |-> "none", s |-> <<>>, n |-> 0]
Unset == [kind |-> "unset", s |-> <<>>, n |-> 0]
Str(s) == [kind |-> "str", s |-> s, n |-> 0]
IntVal(n) == [kind |-> "int", s |-> <<>>, n |-> n]

\* A result of a coercion: the value, or the user error raised.
Ok(v) == [err |-> "", val |-> v]
Raise(e) == [err |-> e, val |-> None]

Digits == <<"0", "1", "2", "3", "4", "5", "6", "7", "8", "9">>
IsDigit(c) == \E d \in 1..10 : Digits[d] = c
DigitVal(c) == (CHOOSE d \in 1..10 : Digits[d] = c) - 1

RECURSIVE NatOf(_)
NatOf(s) == IF s = <<>> THEN 0 ELSE 10 * NatOf(SubSeq(s, 1, Len(s) - 1)) + DigitVal(s[Len(s)])

\* The same sum kept below zero, for the digits of a negative integer.
RECURSIVE NegOf(_)
NegOf(s) == IF s = <<>> THEN 0 ELSE 10 * NegOf(SubSeq(s, 1, Len(s) - 1)) - DigitVal(s[Len(s)])

\* int(value): an optional sign and at least one decimal digit.
IsIntLiteral(s) ==
    LET body == IF s # <<>> /\ s[1] \in {"-", "+"} THEN Tail(s) ELSE s
    IN body # <<>> /\ \A k \in 1..Len(body) : IsDigit(body[k])

\* The digits of a literal after its sign, without leading zeros.
RECURSIVE StripZeros(_)
StripZeros(s) == IF Len(s) > 1 /\ s[1] = "0" THEN StripZeros(Tail(s)) ELSE s
Magnitude(s) == StripZeros(IF s[1] \in {"-", "+"} THEN Tail(s) ELSE s)

\* An integer of Python has no width: the digits m stand for a number
\* greater than 10 * tens + units (tens has nine digits, units is one digit).
Exceeds(m, tens, units) ==
    \/ Len(m) > 10
    \/ /\ Len(m) = 10
       /\ \/ NatOf(SubSeq(m, 1, 9)) > tens
          \/ NatOf(SubSeq(m, 1, 9)) = tens /\ DigitVal(m[10]) > units

\* value < -2147483648 and value > 2147483647, for value = int(s).
LessThanIntMin(s) == s[1] = "-" /\ Exceeds(Magnitude(s), IntMax \div 10, (IntMax % 10) + 1)
GreaterThanIntMax(s) == s[1] # "-" /\ Exceeds(Magnitude(s), IntMax \div 10, IntMax % 10)

\* int(s), for a literal inside the limits.
IntOf(s) == IF s[1] = "-" THEN NegOf(Magnitude(s)) ELSE NatOf(Magnitude(s))

\* A variant of get_integer that does not report a text that is no integer.
get_integer_lenient(column, values) ==
    IF values = <<>> THEN Ok(None)
    ELSE IF ~IsIntLiteral(values[1]) THEN Ok(Str(values[1]))
    ELSE Ok(IntVal(IntOf(values[1])))

\* A variant of get_integer that refuses the two limits themselves.
get_integer_exclusive(column, values) ==
    IF values = <<>> THEN Ok(None)
    ELSE IF ~IsIntLiteral(values[1]) THEN Raise("integer_format_error")
    ELSE IF \/ values[1][1] = "-"
               /\ Exceeds(Magnitude(values[1]), IntMax \div 10, IntMax % 10)
            \/ values[1][1] # "-"
               /\ Exceeds(Magnitude(values[1]), IntMax \div 10, (IntMax % 10) - 1)
         THEN Raise("integer_too_big_error")
    ELSE Ok(IntVal(IntOf(values[1])))

get_integer(column, values) ==
    IF values = <<>> THEN Ok(None)
    ELSE IF ~IsIntLiteral(values[1]) THEN Raise("integer_format_error")
    ELSE IF LessThanIntMin(values[1]) \/ GreaterThanIntMax(values[1])
         THEN Raise("integer_too_big_error")
    ELSE Ok(IntVal(IntOf(values[1])))

RECURSIVE JoinChar(_, _)
JoinChar(values, result) ==
    IF values = <<>> THEN result
    ELSE JoinChar(Tail(values),
                  IF result # <<>> THEN result \o <<",", " ">> \o values[1]
                  ELSE values[1])

get_char(column, values) == Ok(Str(JoinChar(values, <<>>)))

get_text(column, values) == get_char(column, values)

(***************************************************************************)
(* get_numeric. A Decimal quantized to the digits of the field is kept as  *)
(* its coefficient: the number times ten to the power of digits.           *)
(***************************************************************************)
DecVal(n) == [kind |-> "decimal", s |-> <<>>, n |-> n]

\* value.replace(old, new)
RECURSIVE Replace(_, _, _)
Replace(value, old, new) ==
    IF Len(value) < Len(old) THEN value
    ELSE IF SubSeq(value, 1, Len(old)) = old
         THEN new \o Replace(SubSeq(value, Len(old) + 1, Len(value)), old, new)
         ELSE <<value[1]>> \o Replace(Tail(value), old, new)

\* The place of the first "." of a text, 0 when it has none.
PointOf(value) ==
    IF \E k \in 1..Len(value) : value[k] = "."
    THEN CHOOSE k \in 1..Len(value) :
            value[k] = "." /\ \A j \in 1..(k - 1) : value[j] # "."
    ELSE 0

IntegerPart(value) ==
    IF PointOf(value) = 0 THEN value ELSE SubSeq(value, 1, PointOf(value) - 1)
FractionPart(value) ==
    IF PointOf(value) = 0 THEN <<>> ELSE SubSeq(value, PointOf(value) + 1, Len(value))

\* Decimal(value): digits with at most one point, and a digit at least.
IsDecimalLiteral(value) ==
    /\ \A k \in 1..Len(IntegerPart(value)) : IsDigit(IntegerPart(value)[k])
    /\ \A k \in 1..Len(FractionPart(value)) : IsDigit(FractionPart(value)[k])
    /\ Len(IntegerPart(value)) + Len(FractionPart(value)) >= 1

\* The first n digits of a fraction, zeros added when it has fewer.
RECURSIVE Kept(_, _)
Kept(fraction, n) ==
    IF n = 0 THEN <<>>
    ELSE IF fraction = <<>> THEN <<"0">> \o Kept(fraction, n - 1)
    ELSE <<fraction[1]>> \o Kept(Tail(fraction), n - 1)

Dropped(fraction, n) ==
    IF Len(fraction) <= n THEN <<>> ELSE SubSeq(fraction, n + 1, Len(fraction))

\* The dropped digits are more than half a unit, or exactly half of it.
MoreThanHalf(dropped) ==
    /\ dropped # <<>>
    /\ \/ DigitVal(dropped[1]) > 5
       \/ /\ DigitVal(dropped[1]) = 5
          /\ \E k \in 2..Len(dropped) : dropped[k] # "0"
ExactlyHalf(dropped) ==
    /\ dropped # <<>>
    /\ dropped[1] = "5"
    /\ \A k \in 2..Len(dropped) : dropped[k] = "0"

\* Decimal(value).quantize(Decimal(10) ** -digits), rounding half to even.
Quantize(value, digits) ==
    LET coefficient == NatOf(IntegerPart(value) \o Kept(FractionPart(value), digits))
        dropped == Dropped(FractionPart(value), digits)
    IN IF MoreThanHalf(dropped) \/ (ExactlyHalf(dropped) /\ coefficient % 2 = 1)
       THEN coefficient + 1
       ELSE coefficient

\* A variant of get_numeric that takes every point for a thousands
\* separator, whatever the profile says.
get_numeric_strip_points(column, values) ==
    IF values = <<>> THEN Ok(None)
    ELSE LET stripped == Replace(values[1], <<".">>, <<>>)
             value == IF column.decimal_separator = <<",">>
                      THEN Replace(stripped, column.decimal_separator, <<".">>)
                      ELSE stripped
         IN IF ~IsDecimalLiteral(value) THEN Raise("numeric_format_error")
            ELSE Ok(DecVal(Quantize(value, column.digits)))

get_numeric(column, values) ==
    IF values = <<>> THEN Ok(None)
    ELSE LET stripped == IF column.thousands_separator # <<"n", "o", "n", "e">>
                         THEN Replace(values[1], column.thousands_separator, <<>>)
                         ELSE values[1]
             value == IF column.decimal_separator = <<",">>
                      THEN Replace(stripped, column.decimal_separator, <<".">>)
                      ELSE stripped
         IN IF ~IsDecimalLiteral(value) THEN Raise("numeric_format_error")
            ELSE Ok(DecVal(Quantize(value, column.digits)))

\* The decimal digits of a natural number.
RECURSIVE DigitsOf(_)
DigitsOf(n) ==
    IF n < 10 THEN <<Digits[n + 1]>> ELSE DigitsOf(n \div 10) \o <<Digits[(n % 10) + 1]>>

\* Zeros before the digits, up to a length.
RECURSIVE PadZeros(_, _)
PadZeros(digits, n) == IF Len(digits) >= n THEN digits ELSE PadZeros(<<"0">> \o digits, n)

\* str(value) of a Decimal quantized to digits: the integer part, and the
\* point and the fraction when digits is not 0.
CanonicalString(value, digits) ==
    LET all == PadZeros(DigitsOf(value.n), digits + 1)
    IN IF digits = 0 THEN all
       ELSE SubSeq(all, 1, Len(all) - digits) \o <<".">>
            \o SubSeq(all, Len(all) - digits + 1, Len(all))

(***************************************************************************)
(* validate of ImportCSVColumn: check_sources and check_columns, over the  *)
(* records being saved. column is the text of the field, as typed.         *)
(***************************************************************************)
\* A variant of check_sources that also refuses a record with both set.
check_sources_exactly_one(columns) ==
    IF \E k \in 1..Len(columns) :
          (columns[k].column = <<>>) = (columns[k].constant = <<>>)
    THEN "column_and_constant_null_error"
    ELSE ""

check_sources(columns) ==
    IF \E k \in 1..Len(columns) : columns[k].column = <<>> /\ columns[k].constant = <<>>
    THEN "column_and_constant_null_error"
    ELSE ""

\* cells.split(',')
RECURSIVE Split(_, _)
Split(cells, sep) ==
    IF \A k \in 1..Len(cells) : cells[k] # sep THEN <<cells>>
    ELSE LET i == CHOOSE k \in 1..Len(cells) :
                    cells[k] = sep /\ \A j \in 1..(k - 1) : cells[j] # sep
         IN <<SubSeq(cells, 1, i - 1)>> \o Split(SubSeq(cells, i + 1, Len(cells)), sep)

check_columns(columns) ==
    IF \E k \in 1..Len(columns) :
          /\ columns[k].column # <<>>
          /\ \E c \in 1..Len(Split(columns[k].column, ",")) :
                ~IsIntLiteral(Split(columns[k].column, ",")[c])
    THEN "columns_must_be_integers"
    ELSE ""

\* validate: the error raised, "" when the records are saved.
validate(records) ==
    IF check_sources(records) # "" THEN check_sources(records)
    ELSE check_columns(records)

\* getattr(self, 'get_%s' % self.ttype)(values)
Dispatch(column, values) ==
    CASE column.ttype = "integer" -> get_integer(column, values)
      [] column.ttype = "text" -> get_text(column, values)
      [] OTHER -> get_char(column, values)

get_value(column, values) ==
    IF values # <<>> /\ values[1] # <<>> THEN Dispatch(column, values)
    ELSE IF column.constant # <<>> THEN Dispatch(column, <<column.constant>>)
    ELSE Ok(None)

\* field_required: the target field is declared required.
field_required(column) == column.required

(***************************************************************************)
(* Profiles, column mappings and files.                                    *)
(***************************************************************************)
A == <<"a">>
Seven == <<"7">>

AllFields == {"name", "code", "street", "value", "product", "description", "quantity"}

\* One ImportCSVColumn: column is the list of cell positions of the
\* comma-separated field, constant a text (<<>> when not set).
Col(column, constant, field, subfield, ttype, add_to_domain, required) ==
    [column |-> column, constant |-> constant, field |-> field,
     subfield |-> subfield, ttype |-> ttype, add_to_domain |-> add_to_domain,
     required |-> required]

\* One ImportCSV profile.
Profile(method, header, email, match_expression, columns) ==
    [method |-> method, header |-> header, email |-> email,
     match_expression |-> match_expression, columns |-> columns]

NameCol == Col(<<0>>, <<>>, "name", "", "char", TRUE, TRUE)
NameColNoDomain == Col(<<0>>, <<>>, "name", "", "char", FALSE, TRUE)
CodeCol == Col(<<1>>, <<>>, "code", "", "integer", FALSE, FALSE)
CodeColDomain == Col(<<1>>, <<>>, "code", "", "integer", TRUE, FALSE)
CodeConstant == Col(<<>>, Seven, "code", "", "integer", FALSE, FALSE)

DefaultProfiles ==
    { Profile("default", FALSE, TRUE, "", <<NameCol, CodeCol>>),
      Profile("default", TRUE, FALSE, "row[0] == 'a'", <<NameCol, CodeColDomain>>),
      Profile("default", FALSE, FALSE, "", <<NameColNoDomain, CodeConstant>>) }

StreetCol == Col(<<1>>, <<>>, "addresses", "street", "char", TRUE, FALSE)
StreetColNoDomain == Col(<<1>>, <<>>, "addresses", "street", "char", FALSE, FALSE)
ContactCol == Col(<<1>>, <<>>, "contact_mechanisms", "value", "integer", FALSE, FALSE)
ContactColDomain == Col(<<1>>, <<>>, "contact_mechanisms", "value", "char", TRUE, FALSE)
IdentifierCol == Col(<<1>>, <<>>, "identifiers", "", "char", FALSE, FALSE)

PartyProfiles ==
    { Profile("party", FALSE, TRUE, "", <<NameCol, StreetCol>>),
      Profile("party", FALSE, FALSE, "", <<NameCol, ContactCol>>),
      Profile("party", FALSE, FALSE, "", <<NameCol, StreetColNoDomain, ContactColDomain>>),
      Profile("party", TRUE, FALSE, "", <<NameColNoDomain, IdentifierCol>>) }

ProductCol == Col(<<1>>, <<>>, "line", "product", "char", TRUE, FALSE)
QuantityCol == Col(<<1>>, <<>>, "line", "quantity", "integer", FALSE, FALSE)

SaleProfiles ==
    { Profile("sale", FALSE, TRUE, "", <<NameCol, ProductCol>>),
      Profile("sale", FALSE, FALSE, "", <<NameCol, QuantityCol>>) }

Profiles == DefaultProfiles \cup PartyProfiles \cup SaleProfiles

\* The names Product.search finds a product for.
ProductNames == {Str(A)}

\* match_expression: the Python expression over row the profile holds; rows
\* for which it is true are the rows the profile excludes.
match_expression(profile, row) ==
    /\ profile.match_expression = "row[0] == 'a'"
    /\ Len(row) >= 1
    /\ row[1] = A

\* The rows a csv reader can yield: two cells, or a short or an empty row.
CsvRows ==
    { <<c0, c1>> : c0 \in {<<>>, A}, c1 \in {<<>>, A, Seven} } \cup {<<A>>, <<>>}

RECURSIVE SeqsUpTo(_, _)
SeqsUpTo(S, n) ==
    IF n = 0 THEN {<<>>}
    ELSE LET shorter == SeqsUpTo(S, n - 1)
         IN shorter \cup { Append(q, x) : q \in {t \in shorter : Len(t) = n - 1}, x \in S }

CsvFiles == SeqsUpTo(CsvRows, MaxRows)

(***************************************************************************)
(* The record store: the records of the profile's model.                   *)
(***************************************************************************)
EmptyVals == [f \in AllFields |-> Unset]

\* Model(): a new record instance.
NewRecord ==
    [vals |-> EmptyVals, addresses |-> <<>>, contact_mechanisms |-> <<>>,
     identifiers |-> <<>>, lines |-> <<>>]

SetVal(values, field, value) == [values EXCEPT ![field] = value]

NonEmptyDict(values) == \E f \in AllFields : values[f] # Unset

\* A value never assigned reads as None.
Norm(v) == IF v = Unset THEN None ELSE v

Children(rec, rel) ==
    CASE rel = "addresses" -> rec.addresses
      [] rel = "contact_mechanisms" -> rec.contact_mechanisms
      [] rel = "lines" -> rec.lines
      [] OTHER -> <<>>

ClauseHolds(rec, clause) ==
    IF clause.rel = "" THEN Norm(rec.vals[clause.field]) = clause.value
    ELSE \E k \in 1..Len(Children(rec, clause.rel)) :
            Norm(Children(rec, clause.rel)[k][clause.field]) = clause.value

\* A domain is a list of items: a clause, or a nested list of clauses.
DomainHolds(rec, domain) ==
    \A i \in 1..Len(domain) :
        \A k \in 1..Len(domain[i].clauses) : ClauseHolds(rec, domain[i].clauses[k])

\* Model.search(domain, limit=1): the id of the first match, 0 when none.
Search(st, domain) ==
    IF \E id \in 1..Len(st) : DomainHolds(st[id], domain)
    THEN CHOOSE id \in 1..Len(st) :
            /\ DomainHolds(st[id], domain)
            /\ \A j \in 1..(id - 1) : ~DomainHolds(st[j], domain)
    ELSE 0

Clause(rel, field, value) == [rel |-> rel, field |-> field, value |-> value]
Item(nested, clauses) == [nested |-> nested, clauses |-> clauses]

(***************************************************************************)
(* The inputs of the calls of the methods of ImportCSVColumn.              *)
(***************************************************************************)
\* The records validate is given: column and constant as typed.
SourceTexts == {<<>>, <<"0">>, <<"0", ",", "1">>, <<"0", ",">>, A}
RawColumns == { [column |-> c, constant |-> k] : c \in SourceTexts, k \in {<<>>, Seven} }
RecordLists ==
    { <<r>> : r \in RawColumns }
    \cup { <<[column |-> <<"0">>, constant |-> <<>>], r>> : r \in RawColumns }

\* The cells get_integer is given: texts about the two limits, texts far
\* from them and texts that are no integer.
NearLimit == <<"2", "1", "4", "7", "4", "8", "3", "6", "4">>
IntegerBodies ==
    { NearLimit \o <<Digits[d]>> : d \in 1..10 }
    \cup { <<"0", "0">> \o NearLimit \o <<Digits[d]>> : d \in 1..10 }
    \cup { NearLimit \o <<Digits[d], "0">> : d \in 1..10 }
    \cup { SubSeq(NearLimit, 1, 8) \o <<Digits[d], "9">> : d \in 1..10 }
    \cup { <<"0">>, Seven, A, <<>>, <<"7", "a">>,
           <<"9", "9", "9", "9", "9", "9", "9", "9", "9">>,
           <<"3", "0", "0", "0", "0", "0", "0", "0", "0", "0">> }
IntegerTexts == { sign \o body : sign \in {<<>>, <<"-">>, <<"+">>}, body \in IntegerBodies }
                \ {<<>>}

\* The cells get_numeric is given, and the separators and digits it reads.
NumericChars == {"1", "5", ".", ","}
NumericTexts == SeqsUpTo(NumericChars, MaxText) \ {<<>>}
ThousandsSeparators ==
    {<<"n", "o", "n", "e">>, <<".">>, <<",">>, <<"o", "t", "h", "e", "r", "s">>}
DecimalSeparators == {<<".">>, <<",">>}
NumericColumns ==
    { [thousands_separator |-> t, decimal_separator |-> d, digits |-> n] :
        t \in ThousandsSeparators, d \in DecimalSeparators, n \in 0..MaxPrecision }

\* One call: the method, what it is given, what it gave, and what the
\* method gave for the text of its own result.
Call(op, records, column, text, out, again) ==
    [op |-> op, records |-> records, column |-> column, text |-> text,
     out |-> out, again |-> again]
NoColumn == [thousands_separator |-> <<>>, decimal_separator |-> <<>>, digits |-> 0]
NotCalled == [err |-> "not called", val |-> None]
NoCall == Call("", <<>>, NoColumn, <<>>, NotCalled, NotCalled)

\* The database: the records of the target model and the import files.
Database(st, files) == [store |-> st, csv_files |-> files]

\* A variant of the commit that leaves the last commit as it was.
CommitNothing(db, st, files) == db

\* Transaction().commit(): what the transaction wrote is the database.
Commit(db, st, files) == Database(st, files)

(***************************************************************************)
(* State.                                                                  *)
(***************************************************************************)
VARIABLES
    csv_files,  \* the ImportCSVFile records: run id -> its fields
    store,      \* the committed records of the target model
    imports,    \* calls of import_file made so far
    pc,         \* where the call of import_file stands
    queue,      \* the runs the call still has to import, the current one first
    data,       \* the rows the reader has not yielded yet
    pos,        \* how many rows of the file the reader has yielded
    rows,       \* the grouped drafts (party and sale)
    idx,        \* the draft the second loop is at (party and sale)
    logs,       \* the log lines of the current run
    to_save,    \* the records collected for Model.save
    state,      \* the local variable state of the current run
    fault,      \* the exception the last call raised to its caller, "" if none
    saved,      \* what Model.save did in the current run: "", "ok" or "raised"
    outbox,     \* the messages handed to sendmail
    trace,      \* the dedup decisions of the current run, in order
    committed,  \* the database as of the last Transaction().commit()
    selection,  \* the runs the last call of import_file was given
    calc        \* a call of a method of ImportCSVColumn and what it gave

vars == <<csv_files, store, imports, pc, queue, data, pos, rows, idx, logs,
          to_save, state, fault, saved, outbox, trace, committed, selection, calc>>

locals == <<data, pos, rows, idx, logs, to_save, state, saved, trace>>

Runs == DOMAIN csv_files
cur == Head(queue)
profile_csv == csv_files[cur].profile_csv
skip_repeated == csv_files[cur].skip_repeated
update_record == csv_files[cur].update_record

\* default_state: a new run is a draft.
default_state == "draft"

ImportCSVFile(profile, file, skip, update) ==
    [profile_csv |-> profile, csv_file |-> file, skip_repeated |-> skip,
     update_record |-> update, state |-> default_state]

Init ==
    /\ csv_files \in [{1} -> { ImportCSVFile(p, f, s, u) :
                                 p \in Profiles, f \in CsvFiles,
                                 s \in BOOLEAN, u \in BOOLEAN }]
    /\ store = <<>>
    /\ imports = 0
    /\ pc = "idle"
    /\ queue = <<>>
    /\ data = <<>>
    /\ pos = 0
    /\ rows = <<>>
    /\ idx = 0
    /\ logs = <<>>
    /\ to_save = <<>>
    /\ state = ""
    /\ fault = ""
    /\ saved = ""
    /\ outbox = <<>>
    /\ trace = <<>>
    /\ committed = Database(store, csv_files)
    /\ selection = <<>>
    /\ calc = NoCall

\* add_message_line: one line of the log.
add_message_line(status, message, n) == [status |-> status, message |-> message, n |-> n]

\* An exception leaves import_file: the call ends with the run it was at
\* (the head of queue) and the runs after it not imported, and the
\* transaction is rolled back to the last commit.
Raised(e) ==
    /\ fault' = e
    /\ store' = committed.store
    /\ csv_files' = committed.csv_files
    /\ pc' = "idle"
    /\ saved' = ""
    /\ data' = <<>>
    /\ pos' = 0
    /\ rows' = <<>>
    /\ idx' = 0
    /\ logs' = <<>>
    /\ to_save' = <<>>
    /\ state' = ""
    /\ trace' = <<>>
    /\ UNCHANGED <<calc, committed, selection, imports, queue, outbox>>

\* import_file: the button, on a list of runs. No field of the runs is read
\* but profile_csv.
import_file(sel) ==
    /\ pc = "idle"
    /\ imports < MaxImports
    /\ imports' = imports + 1
    /\ queue' = sel
    /\ selection' = sel
    /\ pc' = "begin"
    /\ fault' = ""
    /\ UNCHANGED <<calc, committed, csv_files, store, outbox, locals>>

\* The call of a strategy after the first goes on from the position the one
\* before it ended at.
NextPc(q) == IF q = <<>> THEN "idle" ELSE "begin"

\* read_csv_file and the skip of the header row.
read_csv_file(csv_file) ==
    IF csv_file.profile_csv.header /\ csv_file.csv_file # <<>>
    THEN Tail(csv_file.csv_file)
    ELSE csv_file.csv_file

Begin ==
    /\ pc = "begin"
    /\ data' = read_csv_file(csv_files[cur])
    /\ pos' = IF profile_csv.header /\ csv_files[cur].csv_file # <<>> THEN 1 ELSE 0
    /\ rows' = <<>>
    /\ idx' = 1
    /\ logs' = <<>>
    /\ to_save' = <<>>
    /\ state' = ""
    /\ trace' = <<>>
    /\ saved' = ""
    /\ pc' = IF data' # <<>> THEN "rows" ELSE "save"
    /\ UNCHANGED <<calc, committed, selection, csv_files, store, imports, queue, fault, outbox>>

(***************************************************************************)
(* The dedup decision, the same in the three strategies.                   *)
(***************************************************************************)
\* A variant that looks at update_record before skip_repeated.
DecideUpdateFirst(domain, skip, update, st) ==
    LET id == IF domain # <<>> THEN Search(st, domain) ELSE 0
    IN IF domain # <<>> /\ update /\ id # 0 THEN [decision |-> "UPDATE", target |-> id]
       ELSE IF domain # <<>> /\ skip /\ id # 0 THEN [decision |-> "SKIP", target |-> id]
       ELSE [decision |-> "CREATE", target |-> 0]

Decide(domain, skip, update, st) ==
    IF domain # <<>>
    THEN LET id == Search(st, domain)
         IN IF skip /\ id # 0 THEN [decision |-> "SKIP", target |-> id]
            ELSE IF update /\ id # 0 THEN [decision |-> "UPDATE", target |-> id]
            ELSE [decision |-> "CREATE", target |-> 0]
    ELSE [decision |-> "CREATE", target |-> 0]

\* A variant that logs a skipped draft with status done.
DecisionLogSkipDone(d) ==
    CASE d.decision = "SKIP" -> add_message_line("done", "record_already_exists", 0)
      [] d.decision = "UPDATE" -> add_message_line("done", "record_updated", 0)
      [] OTHER -> add_message_line("done", "record_added", 0)

DecisionLog(d) ==
    CASE d.decision = "SKIP" -> add_message_line("skipped", "record_already_exists", 0)
      [] d.decision = "UPDATE" -> add_message_line("done", "record_updated", 0)
      [] OTHER -> add_message_line("done", "record_added", 0)

TraceEntry(src, domain, st, d) ==
    [src |-> src, has_domain |-> domain # <<>>, domain |-> domain,
     match |-> IF domain # <<>> THEN Search(st, domain) ELSE 0,
     decision |-> d.decision, target |-> d.target]

\* setattr(record, k, v) for every item of values.
SetAttrs(rec, values) ==
    [rec EXCEPT !.vals = [f \in AllFields |->
                            IF values[f] # Unset THEN values[f] ELSE @[f]]]

(***************************************************************************)
(* import_file_default.                                                    *)
(***************************************************************************)
Decoded(values, domain, e) == [values |-> values, domain |-> domain, fault |-> e]

\* A variant that reads a cell the row does not have as an empty cell.
CellsPadded(column, row) ==
    Ok([k \in 1..Len(column.column) |->
            IF column.column[k] >= Len(row) THEN <<>> ELSE row[column.column[k] + 1]])

\* The cells a column reads: the error of a position the row does not have.
Cells(column, row) ==
    IF \E k \in 1..Len(column.column) : column.column[k] >= Len(row)
    THEN Raise("csv_format_error")
    ELSE Ok([k \in 1..Len(column.column) |-> row[column.column[k] + 1]])

\* The value of one column of a row (constant, or the coerced cells).
ColumnValue(column, row) ==
    IF column.constant # <<>> THEN Ok(Str(column.constant))
    ELSE IF Cells(column, row).err # "" THEN Raise("csv_format_error")
    ELSE get_value(column, Cells(column, row).val)

DefaultColumn(column, row, acc) ==
    LET r == ColumnValue(column, row)
    IN IF r.err # "" THEN Decoded(acc.values, acc.domain, r.err)
       ELSE Decoded(SetVal(acc.values, column.field, r.val),
                    IF column.add_to_domain
                    THEN Append(acc.domain,
                                Item(FALSE, <<Clause("", column.field, r.val)>>))
                    ELSE acc.domain,
                    "")

RECURSIVE DecodeDefault(_, _, _)
DecodeDefault(columns, row, acc) ==
    IF columns = <<>> \/ acc.fault # "" THEN acc
    ELSE DecodeDefault(Tail(columns), row, DefaultColumn(Head(columns), row, acc))

\* A variant that goes to the save after every row.
AfterRowSaveEach(rest) == "save"

AfterRow(rest) == IF rest # <<>> THEN "rows" ELSE "save"

\* One pass of the loop over the rows.
RowDefault ==
    /\ pc = "rows"
    /\ profile_csv.method = "default"
    /\ LET row == Head(data)
           dec == DecodeDefault(profile_csv.columns, row, Decoded(EmptyVals, <<>>, ""))
           d == Decide(dec.domain, skip_repeated, update_record, store)
           record == IF d.decision = "UPDATE" THEN store[d.target] ELSE NewRecord
       IN IF row = <<>>
          THEN /\ data' = Tail(data)
               /\ pos' = pos + 1
               /\ pc' = AfterRow(Tail(data))
               /\ UNCHANGED <<calc, committed, selection, csv_files, store, imports, queue, rows, idx, logs,
                              to_save, state, fault, saved, outbox, trace>>
          ELSE IF dec.fault # ""
          THEN Raised(dec.fault)
          ELSE /\ data' = Tail(data)
               /\ pos' = pos + 1
               /\ pc' = AfterRow(Tail(data))
               /\ logs' = Append(logs, DecisionLog(d))
               /\ trace' = Append(trace, TraceEntry(pos + 1, dec.domain, store, d))
               /\ to_save' = IF d.decision = "SKIP" THEN to_save
                             ELSE Append(to_save,
                                         [id |-> d.target, src |-> pos + 1,
                                          rec |-> SetAttrs(record, dec.values)])
               /\ UNCHANGED <<calc, committed, selection, csv_files, store, imports, queue, rows, idx, state,
                              fault, saved, outbox>>

(***************************************************************************)
(* import_file_party: the rows are grouped, then the drafts are decided.   *)
(***************************************************************************)
PartyAcc(values, domain, identifiers, is_party, is_address, is_contact, e) ==
    [values |-> values, domain |-> domain, identifiers |-> identifiers,
     is_party |-> is_party, is_address |-> is_address, is_contact |-> is_contact,
     fault |-> e]

\* The start of the loop body over the columns in party and sale:
\* int(cells[0]), then the value as in the default strategy.
GroupedValue(column, row) ==
    IF column.column = <<>> THEN Raise("ValueError")
    ELSE ColumnValue(column, row)

\* row[cell]: the first cell the column names.
FirstCell(column, row) == row[column.column[1] + 1]

PartyColumn(column, row, acc) ==
    LET r == GroupedValue(column, row)
    IN IF r.err # "" THEN [acc EXCEPT !.fault = r.err]
       ELSE IF column.column[1] >= Len(row) THEN [acc EXCEPT !.fault = "IndexError"]
       ELSE IF column.field = "addresses" /\ FirstCell(column, row) # <<>>
       THEN [acc EXCEPT !.is_address = TRUE, !.is_party = FALSE,
                        !.values = SetVal(@, column.subfield, r.val),
                        !.domain = IF column.add_to_domain
                                   THEN Append(@, Clause("addresses", column.subfield, r.val))
                                   ELSE @]
       ELSE IF column.field = "contact_mechanisms" /\ FirstCell(column, row) # <<>>
       THEN [acc EXCEPT !.is_contact = TRUE, !.is_party = FALSE,
                        !.values = SetVal(@, column.subfield, r.val),
                        !.domain = IF column.add_to_domain
                                   THEN Append(@, Clause("contact_mechanisms",
                                                         column.subfield, r.val))
                                   ELSE @]
       ELSE IF column.field = "identifiers" /\ FirstCell(column, row) # <<>>
       THEN [acc EXCEPT !.identifiers = Append(@, r.val)]
       ELSE IF FirstCell(column, row) # <<>>
       THEN [acc EXCEPT !.values = SetVal(@, column.field, r.val),
                        !.domain = Append(@, Clause("", column.field, r.val))]
       ELSE acc

RECURSIVE DecodeParty(_, _, _)
DecodeParty(columns, row, acc) ==
    IF columns = <<>> \/ acc.fault # "" THEN acc
    ELSE DecodeParty(Tail(columns), row, PartyColumn(Head(columns), row, acc))

\* The domain of a new top-level draft: its clauses, one item each.
TopDomain(domain) == [k \in 1..Len(domain) |-> Item(FALSE, <<domain[k]>>)]

Draft(src, values, identifiers, domain) ==
    [src |-> src, domain |-> TopDomain(domain),
     record |-> [vals |-> values, addresses |-> <<>>, contact_mechanisms |-> <<>>,
                 identifiers |-> identifiers, lines |-> <<>>]]

\* rows[-1]['domain'].append(domain), when the row has a domain.
AppendDomain(draft, domain) ==
    IF domain = <<>> THEN draft
    ELSE [draft EXCEPT !.domain = Append(@, Item(TRUE, domain))]

\* "add values in rows" of import_file_party: the drafts after the row, or
\* the exception of a row that has no draft to go to.
GroupParty(drafts, src, acc) ==
    IF acc.is_address /\ NonEmptyDict(acc.values)
    THEN IF drafts = <<>> THEN [fault |-> "IndexError", rows |-> drafts]
         ELSE IF acc.domain # <<>> /\ drafts[Len(drafts)].domain = <<>>
         THEN [fault |-> "AttributeError", rows |-> drafts]
         ELSE [fault |-> "",
               rows |-> [drafts EXCEPT ![Len(drafts)] =
                            AppendDomain([@ EXCEPT !.record.addresses =
                                                       Append(@, acc.values)],
                                         acc.domain)]]
    ELSE IF acc.is_contact /\ NonEmptyDict(acc.values)
    THEN IF drafts = <<>> THEN [fault |-> "IndexError", rows |-> drafts]
         ELSE IF acc.domain # <<>> /\ drafts[Len(drafts)].domain = <<>>
         THEN [fault |-> "AttributeError", rows |-> drafts]
         ELSE [fault |-> "",
               rows |-> [drafts EXCEPT ![Len(drafts)] =
                            AppendDomain([@ EXCEPT !.record.contact_mechanisms =
                                                       Append(@, acc.values)],
                                         acc.domain)]]
    ELSE IF acc.is_party /\ NonEmptyDict(acc.values)
    THEN [fault |-> "",
          rows |-> Append(drafts, Draft(src, acc.values, acc.identifiers, acc.domain))]
    ELSE [fault |-> "", rows |-> drafts]

AfterGroupedRow(rest, drafts) ==
    IF rest # <<>> THEN "rows" ELSE IF drafts # <<>> THEN "classify" ELSE "save"

\* One pass of the first loop of import_file_party.
RowParty ==
    /\ pc = "rows"
    /\ profile_csv.method = "party"
    /\ LET row == Head(data)
           acc == DecodeParty(profile_csv.columns, row,
                              PartyAcc(EmptyVals, <<>>, <<>>, TRUE, FALSE, FALSE, ""))
           g == GroupParty(rows, pos + 1, acc)
       IN IF acc.fault # "" THEN Raised(acc.fault)
          ELSE IF g.fault # "" THEN Raised(g.fault)
          ELSE /\ rows' = g.rows
               /\ data' = Tail(data)
               /\ pos' = pos + 1
               /\ pc' = AfterGroupedRow(Tail(data), g.rows)
               /\ UNCHANGED <<calc, committed, selection, csv_files, store, imports, queue, idx, logs, to_save,
                              state, fault, saved, outbox, trace>>

\* The record a draft is saved as: the values set on the new or the found
\* record, its children added after those the record has.
Assigned(record, draft) ==
    [SetAttrs(record, draft.record.vals) EXCEPT
        !.addresses = @ \o draft.record.addresses,
        !.contact_mechanisms = @ \o draft.record.contact_mechanisms,
        !.identifiers = @ \o draft.record.identifiers,
        !.lines = @ \o draft.record.lines]

\* One pass of the second loop of import_file_party and import_file_sale.
ClassifyDraft ==
    LET draft == rows[idx]
        d == Decide(draft.domain, skip_repeated, update_record, store)
        record == IF d.decision = "UPDATE" THEN store[d.target] ELSE NewRecord
    IN /\ idx' = idx + 1
       /\ pc' = IF idx < Len(rows) THEN "classify" ELSE "save"
       /\ logs' = Append(logs, DecisionLog(d))
       /\ trace' = Append(trace, TraceEntry(draft.src, draft.domain, store, d))
       /\ to_save' = IF d.decision = "SKIP" THEN to_save
                     ELSE Append(to_save, [id |-> d.target, src |-> draft.src,
                                           rec |-> Assigned(record, draft)])
       /\ UNCHANGED <<calc, committed, selection, csv_files, store, imports, queue, data, pos, rows, state,
                      fault, saved, outbox>>

ClassifyParty ==
    /\ pc = "classify"
    /\ profile_csv.method = "party"
    /\ ClassifyDraft

(***************************************************************************)
(* import_file_sale.                                                       *)
(***************************************************************************)
SaleAcc(values, domain, is_sale, is_line, e) ==
    [values |-> values, domain |-> domain, is_sale |-> is_sale, is_line |-> is_line,
     fault |-> e]

SaleColumn(column, row, acc) ==
    LET r == GroupedValue(column, row)
    IN IF r.err # "" THEN [acc EXCEPT !.fault = r.err]
       ELSE IF column.column[1] >= Len(row) THEN [acc EXCEPT !.fault = "IndexError"]
       ELSE IF column.field = "line" /\ FirstCell(column, row) # <<>>
       THEN [acc EXCEPT !.is_line = TRUE, !.is_sale = FALSE,
                        !.values = IF column.subfield = "product"
                                   THEN IF r.val \in ProductNames
                                        THEN SetVal(@, column.subfield, r.val)
                                        ELSE SetVal(@, "description", r.val)
                                   ELSE @,
                        !.domain = IF column.add_to_domain
                                   THEN Append(@, Clause("lines", column.subfield, r.val))
                                   ELSE @]
       ELSE IF FirstCell(column, row) # <<>>
       THEN [acc EXCEPT !.values = SetVal(@, column.field, r.val),
                        !.domain = Append(@, Clause("", column.field, r.val))]
       ELSE acc

RECURSIVE DecodeSale(_, _, _)
DecodeSale(columns, row, acc) ==
    IF columns = <<>> \/ acc.fault # "" THEN acc
    ELSE DecodeSale(Tail(columns), row, SaleColumn(Head(columns), row, acc))

\* "add values in rows" of import_file_sale.
GroupSale(drafts, src, acc) ==
    IF acc.is_line /\ NonEmptyDict(acc.values)
    THEN IF drafts = <<>> THEN [fault |-> "IndexError", rows |-> drafts]
         ELSE IF acc.domain # <<>> /\ drafts[Len(drafts)].domain = <<>>
         THEN [fault |-> "AttributeError", rows |-> drafts]
         ELSE [fault |-> "",
               rows |-> [drafts EXCEPT ![Len(drafts)] =
                            AppendDomain([@ EXCEPT !.record.lines = Append(@, acc.values)],
                                         acc.domain)]]
    ELSE IF acc.is_sale /\ NonEmptyDict(acc.values)
    THEN [fault |-> "", rows |-> Append(drafts, Draft(src, acc.values, <<>>, acc.domain))]
    ELSE [fault |-> "", rows |-> drafts]

\* One pass of the first loop of import_file_sale.
RowSale ==
    /\ pc = "rows"
    /\ profile_csv.method = "sale"
    /\ LET row == Head(data)
           acc == DecodeSale(profile_csv.columns, row,
                             SaleAcc(EmptyVals, <<>>, TRUE, FALSE, ""))
           g == GroupSale(rows, pos + 1, acc)
       IN IF acc.fault # "" THEN Raised(acc.fault)
          ELSE IF g.fault # "" THEN Raised(g.fault)
          ELSE /\ rows' = g.rows
               /\ data' = Tail(data)
               /\ pos' = pos + 1
               /\ pc' = AfterGroupedRow(Tail(data), g.rows)
               /\ UNCHANGED <<calc, committed, selection, csv_files, store, imports, queue, idx, logs, to_save,
                              state, fault, saved, outbox, trace>>

ClassifySale ==
    /\ pc = "classify"
    /\ profile_csv.method = "sale"
    /\ ClassifyDraft

(***************************************************************************)
(* The end of a strategy: the batched save, the state and the message.     *)
(***************************************************************************)
\* The store validates what it saves: a required field must hold a value.
RequiredMissing(profile, rec) ==
    \E k \in 1..Len(profile.columns) :
        /\ field_required(profile.columns[k])
        /\ Norm(rec.vals[profile.columns[k].field]) = None

RECURSIVE Saved(_, _)
Saved(st, batch) ==
    IF batch = <<>> THEN st
    ELSE Saved(IF Head(batch).id = 0 THEN Append(st, Head(batch).rec)
               ELSE [st EXCEPT ![Head(batch).id] = Head(batch).rec],
               Tail(batch))

\* A variant that leaves the state done when the save raised.
StateAfterSaveAlwaysDone(raises) == "done"

\* A variant that puts the run back to draft when the save raised.
StateAfterSaveDraft(raises) == IF raises THEN "draft" ELSE "done"

\* state = 'done', and 'error' in the except block.
StateAfterSave(raises) == IF raises THEN "error" ELSE "done"

\* A variant that writes the summary line also for an empty batch.
SummaryLogsAlways(batch, raises, lines) ==
    <<add_message_line(IF raises THEN "error" ELSE "done",
                       IF raises THEN "import_unsuccessfully" ELSE "import_successfully",
                       Len(batch))>> \o lines

\* logs.insert(0, ...) of the summary line, under "if to_save".
SummaryLogs(batch, raises, lines) ==
    IF batch = <<>> THEN lines
    ELSE <<add_message_line(IF raises THEN "error" ELSE "done",
                            IF raises THEN "import_unsuccessfully"
                            ELSE "import_successfully",
                            Len(batch))>> \o lines

\* Model.save(to_save) in its try block, then the summary line.
Save ==
    /\ pc = "save"
    /\ pc' = "write"
    /\ \E raises \in BOOLEAN :
        /\ to_save = <<>> => ~raises
        /\ (\E k \in 1..Len(to_save) : RequiredMissing(profile_csv, to_save[k].rec))
              => raises
        /\ state' = StateAfterSave(raises)
        /\ logs' = SummaryLogs(to_save, raises, logs)
        /\ store' = IF raises THEN store ELSE Saved(store, to_save)
        /\ saved' = IF to_save = <<>> THEN "" ELSE IF raises THEN "raised" ELSE "ok"
    /\ UNCHANGED <<calc, committed, selection, csv_files, imports, queue, data, pos, rows, idx, to_save,
                   fault, outbox, trace>>

\* cls.write([csv_file], {'state': state}) and the commit.
WriteState ==
    /\ pc = "write"
    /\ csv_files' = [csv_files EXCEPT ![cur].state = state]
    /\ committed' = Commit(committed, store, csv_files')
    /\ pc' = "mail"
    /\ UNCHANGED <<calc, selection, store, imports, queue, fault, outbox, locals>>

\* send_message when the profile asks for it; then the next run of the call.
SendMessage ==
    /\ pc = "mail"
    /\ outbox' = IF profile_csv.email THEN Append(outbox, logs) ELSE outbox
    /\ queue' = Tail(queue)
    /\ pc' = NextPc(Tail(queue))
    /\ UNCHANGED <<calc, committed, selection, csv_files, store, imports, fault, locals>>

\* The lists of runs the button is pressed on: one run, or all of them.
Selections ==
    { <<r>> : r \in Runs }
    \cup { q \in [1..Cardinality(Runs) -> Runs] : \A i \in 1..Len(q) : q[i] = i }

Next ==
    \/ \E sel \in Selections : import_file(sel)
    \/ Begin
    \/ RowDefault
    \/ RowParty
    \/ ClassifyParty
    \/ RowSale
    \/ ClassifySale
    \/ Save
    \/ WriteState
    \/ SendMessage

Spec == Init /\ [][Next]_vars

(***************************************************************************)
(* import_file on two runs: the button pressed on one of them or on both.  *)
(***************************************************************************)
\* The file of the first run has no row or one row, the file of the second
\* two rows at most.
BatchFiles == {f \in CsvFiles : Len(f) <= 1}
SecondFiles == {f \in CsvFiles : Len(f) <= 2}

\* One profile for each strategy.
BatchProfiles ==
    { Profile("default", FALSE, TRUE, "", <<NameCol, CodeColDomain>>),
      Profile("party", FALSE, FALSE, "", <<NameCol, ContactCol>>),
      Profile("sale", FALSE, TRUE, "", <<NameCol, ProductCol>>) }

\* Two runs of one profile: the first creates, the second has its flags.
InitBatch ==
    /\ csv_files \in { <<ImportCSVFile(p, f1, FALSE, FALSE), ImportCSVFile(p, f2, s, u)>> :
                          p \in BatchProfiles, f1 \in BatchFiles, f2 \in SecondFiles,
                          s \in BOOLEAN, u \in BOOLEAN }
    /\ store = <<>>
    /\ imports = 0
    /\ pc = "idle"
    /\ queue = <<>>
    /\ data = <<>>
    /\ pos = 0
    /\ rows = <<>>
    /\ idx = 0
    /\ logs = <<>>
    /\ to_save = <<>>
    /\ state = ""
    /\ fault = ""
    /\ saved = ""
    /\ outbox = <<>>
    /\ trace = <<>>
    /\ committed = Database(store, csv_files)
    /\ selection = <<>>
    /\ calc = NoCall

SpecBatch == InitBatch /\ [][Next]_vars

(***************************************************************************)
(* The methods of ImportCSVColumn, called one at a time on what Init       *)
(* draws: validate on the records being saved, get_integer and get_numeric *)
(* on a cell, and get_numeric again on the text of its own result.         *)
(***************************************************************************)
program == <<csv_files, store, imports, pc, queue, data, pos, rows, idx, logs,
             to_save, state, fault, saved, outbox, trace, committed, selection>>

InitColumn ==
    /\ csv_files = <<>>
    /\ store = <<>>
    /\ imports = 0
    /\ pc = "idle"
    /\ queue = <<>>
    /\ data = <<>>
    /\ pos = 0
    /\ rows = <<>>
    /\ idx = 0
    /\ logs = <<>>
    /\ to_save = <<>>
    /\ state = ""
    /\ fault = ""
    /\ saved = ""
    /\ outbox = <<>>
    /\ trace = <<>>
    /\ committed = Database(store, csv_files)
    /\ selection = <<>>
    /\ calc \in
          { Call("validate", rs, NoColumn, <<>>, NotCalled, NotCalled) :
              rs \in RecordLists }
          \cup { Call("get_integer", <<>>, NoColumn, t, NotCalled, NotCalled) :
                   t \in IntegerTexts }
          \cup { Call("get_numeric", <<>>, c, t, NotCalled, NotCalled) :
                   c \in NumericColumns, t \in NumericTexts }

Validate ==
    /\ calc.op = "validate"
    /\ calc.out = NotCalled
    /\ calc' = [calc EXCEPT !.out = [err |-> validate(calc.records), val |-> None]]
    /\ UNCHANGED program

GetInteger ==
    /\ calc.op = "get_integer"
    /\ calc.out = NotCalled
    /\ calc' = [calc EXCEPT !.out = get_integer(calc.column, <<calc.text>>)]
    /\ UNCHANGED program

GetNumeric ==
    /\ calc.op = "get_numeric"
    /\ calc.out = NotCalled
    /\ calc' = [calc EXCEPT !.out = get_numeric(calc.column, <<calc.text>>)]
    /\ UNCHANGED program

\* get_numeric on str(value) of the value it returned.
GetNumericAgain ==
    /\ calc.op = "get_numeric"
    /\ calc.out.err = ""
    /\ calc.again = NotCalled
    /\ calc' = [calc EXCEPT !.again =
                    get_numeric(calc.column,
                                <<CanonicalString(calc.out.val, calc.column.digits)>>)]
    /\ UNCHANGED program

NextColumn ==
    \/ Validate
    \/ GetInteger
    \/ GetNumeric
    \/ GetNumericAgain

SpecColumn == InitColumn /\ [][NextColumn]_vars

(***************************************************************************)
(* Properties.                                                             *)
(***************************************************************************)
\* A run is being imported and has not raised.
Active == queue # <<>> /\ pc \in {"rows", "classify", "save", "write", "mail"}

\* The rows of the current run's file, the header row included.
File == csv_files[cur].csv_file

TableSkipFirst(match, skip, update) ==
    IF match /\ skip THEN "SKIP" ELSE IF match /\ update THEN "UPDATE" ELSE "CREATE"

TableUpdateFirst(match, skip, update) ==
    IF match /\ update THEN "UPDATE" ELSE IF match /\ skip THEN "SKIP" ELSE "CREATE"

DecisionMessage(decision) ==
    CASE decision = "SKIP" -> "record_already_exists"
      [] decision = "UPDATE" -> "record_updated"
      [] OTHER -> "record_added"

\* C1 (as amended): for every draft with a non-empty domain the decision is
\* SKIP of the matched record when a match exists and skip_repeated is set
\* (also when update_record is set too), UPDATE of the matched record when a
\* match exists, update_record is set and skip_repeated is not, and CREATE in
\* every other case; the log line of the draft says so.
C1_DecisionSkipFirst ==
    Active =>
        \A k \in 1..Len(trace) :
            trace[k].has_domain =>
                /\ trace[k].decision =
                       TableSkipFirst(trace[k].match # 0, skip_repeated, update_record)
                /\ trace[k].decision \in {"SKIP", "UPDATE"}
                       => trace[k].target = trace[k].match
                /\ trace[k].decision = "CREATE" => trace[k].target = 0
                /\ pc \in {"rows", "classify", "save"}
                       => /\ Len(logs) = Len(trace)
                          /\ logs[k].message = DecisionMessage(trace[k].decision)

\* C1 witness: a draft with a match, decided with both flags set.
C1_Witness ==
    /\ Active
    /\ skip_repeated
    /\ update_record
    /\ \E k \in 1..Len(trace) :
          trace[k].has_domain /\ trace[k].match # 0 /\ trace[k].decision = "SKIP"

\* C1 (as claimed): for every draft with a non-empty domain the decision is
\* UPDATE when a match exists and update_record is set (also when
\* skip_repeated is set too), SKIP when a match exists, skip_repeated is set
\* and update_record is not, CREATE in every other case.
C1_Original ==
    Active =>
        \A k \in 1..Len(trace) :
            trace[k].has_domain =>
                trace[k].decision =
                    TableUpdateFirst(trace[k].match # 0, skip_repeated, update_record)

\* C2 (as amended): the state of a run only ever changes to done or to error,
\* never back to draft (done and error are not terminal: import_file does not
\* read the state, and a run in done or error is imported again).
C2_NeverBackToDraft ==
    [][\A r \in Runs :
          csv_files'[r].state # csv_files[r].state
              => csv_files'[r].state \in {"done", "error"}]_vars

\* C2 witness: a run whose state is done has been imported again, the save
\* raised, and error is about to be written over done.
C2_Witness ==
    /\ pc = "write"
    /\ csv_files[cur].state = "done"
    /\ state = "error"

\* C2 (as claimed): a run whose state is done or error never changes state
\* again and is never taken up by import_file again.
C2_Original ==
    [][\A r \in Runs :
          csv_files[r].state \in {"done", "error"}
              => /\ csv_files'[r].state = csv_files[r].state
                 /\ ~(pc = "idle" /\ pc' = "begin" /\ Head(queue') = r)]_vars

SummaryLines(lines) ==
    {k \in 1..Len(lines) :
        lines[k].message \in {"import_successfully", "import_unsuccessfully"}}

\* C3: when the batched save raises, no exception leaves import_file: the
\* run goes on to write the state error, and the log holds exactly one
\* summary line, import_unsuccessfully with status error.
C3_SaveFailureIsRecorded ==
    (pc \in {"write", "mail"} /\ saved = "raised") =>
        /\ fault = ""
        /\ state = "error"
        /\ pc = "mail" => csv_files[cur].state = "error"
        /\ SummaryLines(logs) = {1}
        /\ logs[1] = add_message_line("error", "import_unsuccessfully", Len(to_save))

\* C3 witness: the save of a batch in which no required field is missing
\* raised, and the state has been written.
C3_Witness ==
    /\ pc = "mail"
    /\ saved = "raised"
    /\ \A k \in 1..Len(to_save) : ~RequiredMissing(profile_csv, to_save[k].rec)

\* C4 (as amended): a run that ends in state done has an import_successfully
\* summary line, the first of its log and with the size of the batch, exactly
\* when at least one draft was collected for persistence; a run for which no
\* draft was collected ends in done with no summary line.
C4_SummaryIffBatch ==
    (pc = "mail" /\ csv_files[cur].state = "done") =>
        IF to_save = <<>>
        THEN SummaryLines(logs) = {}
        ELSE /\ SummaryLines(logs) = {1}
             /\ logs[1] = add_message_line("done", "import_successfully", Len(to_save))

\* C4 witness: every row of the file was skipped and the run ended in done.
C4_Witness ==
    /\ pc = "mail"
    /\ csv_files[cur].state = "done"
    /\ to_save = <<>>
    /\ logs # <<>>
    /\ \A k \in 1..Len(logs) : logs[k].status = "skipped"

\* C4 (as claimed): every run that ends in state done has an
\* import_successfully summary line in its log, also when no draft was
\* collected for persistence.
C4_Original ==
    (pc = "mail" /\ csv_files[cur].state = "done") =>
        \E k \in 1..Len(logs) : logs[k].message = "import_successfully"

\* The row lacks a cell that a column without constant names (an empty row
\* is passed over by the default strategy before any column is read).
ShortRow(profile, row) ==
    /\ profile.method = "default" => row # <<>>
    /\ \E k \in 1..Len(profile.columns) :
          /\ profile.columns[k].constant = <<>>
          /\ \E j \in 1..Len(profile.columns[k].column) :
                profile.columns[k].column[j] >= Len(row)

\* C5 (as amended): when a row is shorter than a cell position named by a
\* column mapping, import_file raises csv_format_error to its caller: the
\* state of the run is not written, nothing is saved, and no log line or
\* message is produced.
C5_ShortRowRaises ==
    [][(pc = "rows" /\ ShortRow(profile_csv, Head(data)))
          => /\ fault' = "csv_format_error"
             /\ pc' = "idle"
             /\ logs' = <<>>
             /\ UNCHANGED <<csv_files, store, outbox>>]_vars

\* C5 witness: the call has ended with csv_format_error and the run is still
\* a draft.
C5_Witness ==
    /\ pc = "idle"
    /\ fault = "csv_format_error"
    /\ csv_files[cur].state = "draft"
    /\ \E i \in 1..Len(File) : ShortRow(profile_csv, File[i])

\* C5 (as claimed): a row shorter than a cell position named by a column
\* mapping raises no fault to the caller of import_file.
C5_Original == fault # "csv_format_error"

\* The row has its two cells, and the first cell of an integer column
\* without constant holds a text that is no integer.
BadInteger(profile, row) ==
    /\ Len(row) = 2
    /\ \E k \in 1..Len(profile.columns) :
          /\ profile.columns[k].constant = <<>>
          /\ profile.columns[k].ttype = "integer"
          /\ profile.columns[k].column # <<>>
          /\ row[profile.columns[k].column[1] + 1] # <<>>
          /\ ~IsIntLiteral(row[profile.columns[k].column[1] + 1])

\* C6 (as amended): a coercion failure in a row aborts the whole run: the
\* error is raised to the caller of import_file, no row of the file is saved
\* or logged, the rows before it included, and the state is not written.
C6_CoercionFailureAborts ==
    [][(pc = "rows" /\ BadInteger(profile_csv, Head(data)))
          => /\ fault' = "integer_format_error"
             /\ pc' = "idle"
             /\ logs' = <<>>
             /\ to_save' = <<>>
             /\ UNCHANGED <<csv_files, store, outbox>>]_vars

\* C6 witness: the second row of a file failed integer coercion after a first
\* row that was decided, and the call ended with the error, the run a draft.
C6_Witness ==
    /\ pc = "idle"
    /\ fault = "integer_format_error"
    /\ csv_files[cur].state = "draft"
    /\ Len(File) >= 2
    /\ File[1] = <<A, Seven>>
    /\ BadInteger(profile_csv, File[2])
    /\ ~profile_csv.header
    /\ store = <<>>

\* C6 (as claimed): a per-row coercion failure never ends the run: no
\* coercion error leaves import_file.
C6_Original == fault \notin {"integer_format_error", "integer_too_big_error"}

\* C7: a draft in which a required field has an absent value is never
\* collected for persistence.
C7_RequiredMissingDropped ==
    Active => \A k \in 1..Len(to_save) : ~RequiredMissing(profile_csv, to_save[k].rec)

\* C8: a row for which the profile's match expression is true is never
\* added to the batch to persist.
C8_ExcludedRowsDropped ==
    Active => \A k \in 1..Len(to_save) : ~match_expression(profile_csv, File[to_save[k].src])

\* The fields whose rows continue a draft: the nested collections.
ChildMarkers(profile) ==
    IF profile.method = "party" THEN {"addresses", "contact_mechanisms", "identifiers"}
    ELSE {"line"}

Populated(column, row) == column.constant = <<>> /\ row[column.column[1] + 1] # <<>>

PopulatesParent(profile, row) ==
    /\ Len(row) = 2
    /\ \E k \in 1..Len(profile.columns) :
          /\ profile.columns[k].field \notin ChildMarkers(profile)
          /\ Populated(profile.columns[k], row)

PopulatesMarker(profile, row, marker) ==
    /\ Len(row) = 2
    /\ \E k \in 1..Len(profile.columns) :
          /\ profile.columns[k].field = marker
          /\ Populated(profile.columns[k], row)

PopulatesChild(profile, row) ==
    \E marker \in ChildMarkers(profile) : PopulatesMarker(profile, row, marker)

ParentOnly(profile, row) == PopulatesParent(profile, row) /\ ~PopulatesChild(profile, row)
ChildOnly(profile, row) == PopulatesChild(profile, row) /\ ~PopulatesParent(profile, row)

\* The first row of the file that is read as data.
FirstData == IF profile_csv.header THEN 2 ELSE 1

ChildList(draft, marker) ==
    CASE marker = "addresses" -> draft.record.addresses
      [] marker = "contact_mechanisms" -> draft.record.contact_mechanisms
      [] marker = "identifiers" -> draft.record.identifiers
      [] OTHER -> draft.record.lines

\* The rows after row i and before the next parent row.
RunOf(i) ==
    {j \in (i + 1)..Len(File) :
        \A m \in (i + 1)..j : ~ParentOnly(profile_csv, File[m])}

\* C9: in a grouped strategy, for a file that starts with a parent row and in
\* which every row is parent-only or child-only, the drafts are the parent
\* rows, in file order, and the child list of a draft for a marker has one
\* entry for each child row of that marker between its parent row and the
\* next parent row.
C9_GroupedAssembly ==
    ( /\ Active
      /\ pc \in {"classify", "save"}
      /\ profile_csv.method \in {"party", "sale"}
      /\ Len(File) >= FirstData
      /\ ParentOnly(profile_csv, File[FirstData])
      /\ \A i \in FirstData..Len(File) :
            ParentOnly(profile_csv, File[i]) \/ ChildOnly(profile_csv, File[i]) )
    => /\ \A i \in FirstData..Len(File) :
            ParentOnly(profile_csv, File[i]) <=> \E j \in 1..Len(rows) : rows[j].src = i
       /\ \A j \in 1..(Len(rows) - 1) : rows[j].src < rows[j + 1].src
       /\ \A j \in 1..Len(rows) : \A marker \in ChildMarkers(profile_csv) :
            Len(ChildList(rows[j], marker)) =
                Cardinality({i \in RunOf(rows[j].src) :
                                PopulatesMarker(profile_csv, File[i], marker)})

\* Every child-only row of the file populates one marker only, addresses or
\* contact_mechanisms in party and a product line in sale.
SingleMarkerRows ==
    \A i \in FirstData..Len(File) :
        ChildOnly(profile_csv, File[i]) =>
            /\ Cardinality({marker \in ChildMarkers(profile_csv) :
                               PopulatesMarker(profile_csv, File[i], marker)}) = 1
            /\ ~PopulatesMarker(profile_csv, File[i], "identifiers")
            /\ profile_csv.method = "sale" =>
                  \E k \in 1..Len(profile_csv.columns) :
                      /\ profile_csv.columns[k].subfield = "product"
                      /\ Populated(profile_csv.columns[k], File[i])

\* The grouping of the files whose child rows populate one marker each: the
\* drafts are the parent rows and each child list holds the child rows of
\* its marker that follow the parent row.
GroupedAssemblySingleMarker ==
    (Active /\ Len(File) >= FirstData /\ SingleMarkerRows) => C9_GroupedAssembly

\* C10: in a grouped strategy every row that populates a field that is not
\* child-marked has started a top-level draft of its own, also when the row
\* populates child-marked fields too.
C10_ParentFieldStartsDraft ==
    ( /\ Active
      /\ pc \in {"rows", "classify", "save"}
      /\ profile_csv.method \in {"party", "sale"} )
    => \A i \in FirstData..pos :
          PopulatesParent(profile_csv, File[i]) => \E j \in 1..Len(rows) : rows[j].src = i

\* The clause names the field of a column mapping of the profile whose
\* add_to_domain is set.
ClauseFlagged(profile, clause) ==
    \E k \in 1..Len(profile.columns) :
        /\ profile.columns[k].add_to_domain
        /\ IF clause.rel = ""
           THEN profile.columns[k].field = clause.field
           ELSE /\ profile.columns[k].field \in {clause.rel, "line"}
                /\ profile.columns[k].subfield = clause.field

DomainFlagged(profile, domain) ==
    \A i \in 1..Len(domain) :
        \A c \in 1..Len(domain[i].clauses) : ClauseFlagged(profile, domain[i].clauses[c])

\* C11: in every strategy every clause of the domain a draft is searched
\* with comes from a column mapping whose add_to_domain is set.
C11_DomainOnlyFlagged ==
    Active =>
        /\ \A k \in 1..Len(trace) : DomainFlagged(profile_csv, trace[k].domain)
        /\ \A j \in 1..Len(rows) : DomainFlagged(profile_csv, rows[j].domain)

\* The domains of the default strategy hold clauses of flagged column
\* mappings only.
DomainOnlyFlaggedDefault ==
    (Active /\ profile_csv.method = "default") => C11_DomainOnlyFlagged

\* validate has been called on the records.
Validated == calc.op = "validate" /\ calc.out # NotCalled

\* The texts of column whose cells are all integers.
IntegerCells == {<<>>, <<"0">>, <<"0", ",", "1">>}

HasNoSource(record) == record.column = <<>> /\ record.constant = <<>>
HasBothSources(record) == record.column # <<>> /\ record.constant # <<>>

\* C12 (as amended): validation at save time rejects the records with
\* column_and_constant_null_error exactly when one of them has both column
\* and constant empty, and saves them when each has a column of integer
\* cells or a constant; a record with both column and constant set is saved.
C12_RejectsOnlyNoSource ==
    Validated =>
        /\ calc.out.err = "column_and_constant_null_error"
              <=> \E k \in 1..Len(calc.records) : HasNoSource(calc.records[k])
        /\ calc.out.err = ""
              <=> \A k \in 1..Len(calc.records) :
                      /\ ~HasNoSource(calc.records[k])
                      /\ calc.records[k].column \in IntegerCells

\* C12 witness: a record with both column and constant set has been saved.
C12_Witness ==
    /\ Validated
    /\ calc.out.err = ""
    /\ \E k \in 1..Len(calc.records) : HasBothSources(calc.records[k])

\* C12 (as claimed): no saved record has both column and constant set, or
\* neither.
C12_Original ==
    (Validated /\ calc.out.err = "") =>
        \A k \in 1..Len(calc.records) :
            /\ ~HasNoSource(calc.records[k])
            /\ ~HasBothSources(calc.records[k])

\* The digits a are, as a number, at most the digits b (neither has leading
\* zeros).
DigitsAtMost(a, b) ==
    \/ Len(a) < Len(b)
    \/ /\ Len(a) = Len(b)
       /\ \/ a = b
          \/ \E k \in 1..Len(a) :
                /\ DigitVal(a[k]) < DigitVal(b[k])
                /\ \A j \in 1..(k - 1) : a[j] = b[j]

\* The integer a literal stands for lies in [-2147483648, 2147483647].
InsideLimits(text) ==
    IF text[1] = "-"
    THEN DigitsAtMost(Magnitude(text), NearLimit \o <<"8">>)
    ELSE DigitsAtMost(Magnitude(text), NearLimit \o <<"7">>)

\* n is the integer the literal stands for: its sign, and its digits read
\* back from n (the last digit apart, so that no sum leaves the limits).
StandsFor(n, text) ==
    LET m == Magnitude(text)
        units == DigitVal(m[Len(m)])
    IN IF text[1] = "-"
       THEN /\ n <= 0
            /\ (n + units) % 10 = 0
            /\ StripZeros(DigitsOf((0 - (n + units)) \div 10) \o <<m[Len(m)]>>) = m
       ELSE n >= 0 /\ DigitsOf(n) = m

IntegerCalled == calc.op = "get_integer" /\ calc.out # NotCalled

\* C13: get_integer of a cell that parses as a base-10 integer raises
\* integer_too_big_error for every value below -2147483648 or above
\* 2147483647, and returns the value for every value inside the limits,
\* the two limits included.
C13_IntegerLimits ==
    (IntegerCalled /\ IsIntLiteral(calc.text)) =>
        /\ ~InsideLimits(calc.text) => calc.out = Raise("integer_too_big_error")
        /\ InsideLimits(calc.text) =>
              /\ calc.out.err = ""
              /\ calc.out.val.kind = "int"
              /\ StandsFor(calc.out.val.n, calc.text)
        /\ calc.text = NearLimit \o <<"7">> => calc.out = Ok(IntVal(IntMax))
        /\ calc.text = <<"-">> \o NearLimit \o <<"8">> => calc.out = Ok(IntVal(IntMin))

\* C13 witness: get_integer has returned the lower limit for its text.
C13_Witness ==
    /\ IntegerCalled
    /\ calc.text = <<"-">> \o NearLimit \o <<"8">>
    /\ calc.out = Ok(IntVal(IntMin))

RECURSIVE Pow10(_)
Pow10(n) == IF n = 0 THEN 1 ELSE 10 * Pow10(n - 1)

\* get_numeric has parsed a cell, and then the text of its own result.
NumericAgain == calc.op = "get_numeric" /\ calc.again # NotCalled

\* C14 (as amended): for every profile whose thousands separator is not the
\* point and every numeric cell that parses, get_numeric of the canonical
\* decimal string of its own result gives the same value; when the thousands
\* separator is the point, the point of the canonical string is stripped
\* and the second result is the first times ten to the power of digits.
C14_RoundTripUnlessPointThousands ==
    NumericAgain =>
        IF calc.column.thousands_separator # <<".">>
        THEN calc.again = calc.out
        ELSE calc.again =
                 Ok(DecVal(calc.out.val.n * Pow10(calc.column.digits)))

\* C14 witness: with no thousands separator and the comma for decimal
\* separator, '1,55' has been parsed to 1.55 and '1.55' to 1.55 again.
C14_Witness ==
    /\ NumericAgain
    /\ calc.column.thousands_separator = <<"n", "o", "n", "e">>
    /\ calc.column.decimal_separator = <<",">>
    /\ calc.column.digits = 2
    /\ calc.text = <<"1", ",", "5", "5">>
    /\ calc.out = Ok(DecVal(155))
    /\ calc.again = calc.out

\* C14 (as claimed): for every profile whose thousands separator differs
\* from its decimal separator and every numeric cell that parses,
\* get_numeric of the canonical decimal string of its own result gives the
\* same value.
C14_Original ==
    (NumericAgain /\ calc.column.thousands_separator # calc.column.decimal_separator)
        => calc.again = calc.out

\* The call of import_file has ended with an exception at a run that is not
\* the first of its list; Earlier are the runs of the list before it.
FaultAtLaterRun == pc = "idle" /\ fault # "" /\ Len(queue) < Len(selection)
Earlier == { selection[i] : i \in 1..(Len(selection) - Len(queue)) }

\* The file of the run is one row that names a record a.
NamesRecord(r) ==
    /\ Len(csv_files[r].csv_file) = 1
    /\ Len(csv_files[r].csv_file[1]) = 2
    /\ csv_files[r].csv_file[1][1] = A

\* C15: when import_file is called on several runs and a later run ends
\* the call with an exception, every run before it has the state that was
\* written and committed when it finished, done or error, and the records
\* it saved are in the store.
C15_EarlierRunsCommitted ==
    FaultAtLaterRun =>
        \A r \in Earlier :
            /\ csv_files[r].state \in {"done", "error"}
            /\ committed.csv_files[r].state = csv_files[r].state
            /\ (csv_files[r].state = "done" /\ NamesRecord(r))
                  => \E id \in 1..Len(store) : store[id].vals["name"] = Str(A)

\* C15 witness: the call on runs 1 and 2 ended with an exception at run 2;
\* run 1 is done and its record is in the store.
C15_Witness ==
    /\ FaultAtLaterRun
    /\ selection = <<1, 2>>
    /\ queue = <<2>>
    /\ csv_files[1].state = "done"
    /\ csv_files[2].state = "draft"
    /\ NamesRecord(1)
    /\ Len(store) = 1
    /\ store[1].vals["name"] = Str(A)

\* C16: within one run Model.save is not called before every row of the
\* file has been read, grouped and decided, and it is called once, on the
\* whole batch: the store changes in that step only, by the records of
\* to_save, and the run goes on to write its state.
C16_SaveAfterAllRows ==
    [][(store' # store \/ (saved' # saved /\ saved' \in {"ok", "raised"}))
          => /\ pc = "save"
             /\ pc' = "write"
             /\ data = <<>>
             /\ pos = Len(File)
             /\ idx > Len(rows)
             /\ profile_csv.method \in {"party", "sale"} => Len(trace) = Len(rows)
             /\ to_save # <<>>
             /\ store' \in {store, Saved(store, to_save)}
             /\ saved = ""]_vars

\* C16 witness: a batch of two records has been saved by one call, after
\* the two rows of the file.
C16_Witness ==
    /\ pc = "write"
    /\ saved = "ok"
    /\ Len(File) = 2
    /\ Len(to_save) = 2
    /\ Len(store) = 2

\* The cells of the row a column mapping names.
CellsOf(column, row) == [j \in 1..Len(column.column) |-> row[column.column[j] + 1]]

\* C17: in the default strategy the value a draft holds for a column
\* mapping is what get_value gives for it: the coercion of the cells when
\* the first of them is not empty, else the coercion of the constant when
\* there is one, else nothing; a constant is never held uncoerced.
C17_DraftHoldsGetValue ==
    (Active /\ profile_csv.method = "default") =>
        \A k \in 1..Len(to_save) :
            \A c \in 1..Len(profile_csv.columns) :
                LET column == profile_csv.columns[c]
                IN Ok(Norm(to_save[k].rec.vals[column.field]))
                       = get_value(column, CellsOf(column, File[to_save[k].src]))

\* Every column mapping of the profile reads cells, and the cells it reads
\* are empty in the row.
AllEmpty(profile, row) ==
    \A c \in 1..Len(profile.columns) :
        /\ profile.columns[c].constant = <<>>
        /\ \A j \in 1..Len(profile.columns[c].column) :
              /\ profile.columns[c].column[j] < Len(row)
              /\ row[profile.columns[c].column[j] + 1] = <<>>

\* C18: in the default strategy a row gives one draft at most, and a row
\* whose decoded fields are all empty gives no draft: no decision is taken
\* for it, no line is logged for it and no record of it is collected.
C18_EmptyRowsDropped ==
    (Active /\ profile_csv.method = "default") =>
        /\ \A k \in 1..(Len(trace) - 1) : trace[k].src < trace[k + 1].src
        /\ \A k \in 1..Len(trace) : ~AllEmpty(profile_csv, File[trace[k].src])
        /\ \A k \in 1..Len(to_save) : ~AllEmpty(profile_csv, File[to_save[k].src])

\* In the default strategy a row gives one draft at most, and a row
\* without cells gives none.
OneDraftPerRowDefault ==
    (Active /\ profile_csv.method = "default") =>
        /\ \A k \in 1..(Len(trace) - 1) : trace[k].src < trace[k + 1].src
        /\ \A k \in 1..Len(trace) : File[trace[k].src] # <<>>

\* The column mappings of the profile have no constant.
NoConstant(profile) ==
    \A c \in 1..Len(profile.columns) : profile.columns[c].constant = <<>>

\* For the profiles without constants the drafts of the default strategy
\* hold what get_value gives.
DraftHoldsGetValueOfCells ==
    (Active /\ NoConstant(profile_csv)) => C17_DraftHoldsGetValue

\* The decisions that are not SKIP, in order.
NotSkipped(entry) == entry.decision # "SKIP"
KeptDecisions(decisions) == SelectSeq(decisions, NotSkipped)

\* The lines of the log for one draft each with status done.
DoneLines(lines) ==
    {k \in 1..Len(lines) :
        /\ lines[k].status = "done"
        /\ lines[k].message # "import_successfully"}

\* C19: when the records are handed to Model.save, in every strategy, the
\* batch is the drafts decided CREATE or UPDATE, in row order, and no draft
\* decided SKIP; the log lines of status done for a draft are as many as
\* the batch, and the summary line reports that number.
C19_BatchIsCreatesAndUpdates ==
    (Active /\ pc \in {"save", "write", "mail"}) =>
        /\ Len(to_save) = Len(KeptDecisions(trace))
        /\ \A k \in 1..Len(to_save) :
              /\ to_save[k].src = KeptDecisions(trace)[k].src
              /\ to_save[k].id = KeptDecisions(trace)[k].target
        /\ \A k \in 1..(Len(to_save) - 1) : to_save[k].src < to_save[k + 1].src
        /\ Cardinality(DoneLines(logs)) = Len(to_save)
        /\ \A k \in SummaryLines(logs) : logs[k].n = Len(to_save)
        /\ (pc \in {"write", "mail"} /\ to_save # <<>>) => SummaryLines(logs) = {1}

\* C19 witness: a file of which the first draft was skipped and the second
\* created has been saved.
C19_Witness ==
    /\ pc = "write"
    /\ saved = "ok"
    /\ Len(trace) = 2
    /\ trace[1].decision = "SKIP"
    /\ trace[2].decision = "CREATE"
    /\ Len(to_save) = 1
    /\ to_save[1].src = 2
    /\ logs[1] = add_message_line("done", "import_successfully", 1)

\* C20: in a grouped strategy a child-only row that comes before every
\* parent row of the file ends the run with an exception when it is
\* grouped: the run never gets past it.
C20_OrphanChildRaises ==
    ( /\ Active
      /\ profile_csv.method \in {"party", "sale"} )
    => \A i \in FirstData..pos :
          ~( /\ ChildOnly(profile_csv, File[i])
             /\ \A j \in FirstData..(i - 1) : ~PopulatesParent(profile_csv, File[j]) )

\* The child-only row populates an address or a contact mechanism of a
\* party, or the product of a sale line.
KeptChild(profile, row) ==
    /\ ChildOnly(profile, row)
    /\ \E k \in 1..Len(profile.columns) :
          /\ Populated(profile.columns[k], row)
          /\ \/ profile.columns[k].field \in {"addresses", "contact_mechanisms"}
             \/ profile.columns[k].field = "line" /\ profile.columns[k].subfield = "product"

\* A child row of an address, of a contact mechanism or of the product of
\* a line that comes before every parent row ends the run with an exception
\* (IndexError when its cells are coerced) and nothing of the run is written.
OrphanKeptChildRaises ==
    [][( /\ pc = "rows"
         /\ profile_csv.method \in {"party", "sale"}
         /\ rows = <<>>
         /\ KeptChild(profile_csv, Head(data)) )
          => /\ fault' \in {"IndexError", "integer_format_error"}
             /\ pc' = "idle"
             /\ logs' = <<>>
             /\ UNCHANGED <<csv_files, store, outbox>>]_vars

====
